---- MODULE Spec2Model ----
(***************************************************************************)
(* Model of ObjectDetection (src/lib/darknet_detection.py): construction,  *)
(* the per-frame call return_objects -> postprocess (decode loop, OpenCV   *)
(* non-maximum suppression, label resolution, coordinate normalisation)    *)
(* and the frame loop of main.                                             *)
(*                                                                         *)
(* Numbers.  Network outputs, thresholds and confidences are fixed-point   *)
(* integers in units of 1/Scale (Scale stands for 1.0); pixel boxes are    *)
(* plain integers; the rounded fields of a detection record are integers   *)
(* in thousandths (round(x, 3)).  Arithmetic is exact: binary floating     *)
(* point representation error is not modelled.                             *)
(***************************************************************************)
EXTENDS Integers, Sequences, FiniteSets, TLC

VARIABLES pc, confThreshold, nmsThreshold, classes, model_res,
          outs, classIds, confidences, boxes, indices, detections, err

vars == <<pc, confThreshold, nmsThreshold, classes, model_res,
          outs, classIds, confidences, boxes, indices, detections, err>>

\* 1.0 in the fixed-point unit of scores, thresholds and row fields.
Scale == 10^4

\* Largest number of rows in all output tensors of one call.
MaxRows == 2

\* Largest number of output tensors of one call.
MaxTensors == 2

----------------------------------------------------------------------------
\* Inputs

\* The class table is a sequence of names; the empty sequence stands for
\* self.classes = None (both are falsy at line 84).
NoClasses == <<>>

\* Output rows of the network, [cx, cy, w, h, field 4, score_0, score_1, ...].
\* At resolution 10x10 the geometry of the first three rows decodes to boxes
\* (0,0,5,4), (0,0,4,4), (0,0,2,4): IoU 4/5, 2/5 and 1/2.
RowWide    == <<3000, 2000, 5000, 4000, 9000, 9000, 1000>>
RowMid     == <<2000, 2000, 4000, 4000, 1000, 1000, 7000>>
RowNarrow  == <<1000, 2000, 2000, 4000, 5000, 6000, 2000>>
\* [0.5, 0.5, 0.2, 0.2, obj, 0.9, 0.1]
RowCentre  == <<5000, 5000, 2000, 2000, 2000, 9000, 1000>>
\* zero-width and zero-size boxes
RowFlatA   == <<8000, 8000, 0, 2000, 9000, 8000, 8000>>
RowFlatB   == <<9000, 1000, 0, 0, 1000, 7004, 2000>>
\* box past the right and the top edge of the network input
RowEdge    == <<10000, 0, 4000, 4000, 3000, 3000, 9500>>
\* maximum class score equal to 0.5, field 4 above it
RowAtThr   == <<5000, 5000, 2000, 2000, 9000, 5000, 1000>>
\* [0.5, 0.5, 0.2, 0.2, 0.9, 0.1]: six fields
RowSix     == <<5000, 5000, 2000, 2000, 9000, 1000>>
\* five fields: the class-score sub-vector detection[5:] is empty
RowNoScore == <<5000, 5000, 2000, 2000, 9000>>
\* three class scores, the maximum at class 2
RowThree   == <<5000, 5000, 2000, 2000, 1000, 1000, 2000, 9000>>

Rows == {RowWide, RowMid, RowNarrow, RowCentre, RowFlatA, RowFlatB, RowEdge,
         RowAtThr, RowSix, RowNoScore, RowThree}

ThrVals == {Scale \div 2, -(Scale \div 10)}
NmsVals == {(2 * Scale) \div 5, Scale \div 2, -(Scale \div 10)}
ResVals == {<<10, 10>>, <<416, 416>>, <<0, 10>>}
ClassTables == {NoClasses, <<"person", "car">>}

\* Values tried at field index 4 of a row.
Field4Vals == {0, 9900}

RECURSIVE SeqsUpTo(_, _)
SeqsUpTo(S, n) ==
  IF n = 0 THEN {<<>>}
  ELSE LET shorter == SeqsUpTo(S, n - 1)
       IN shorter \cup {Append(s, x) : s \in {t \in shorter : Len(t) = n - 1}, x \in S}

\* A tensor is a 2-D array: all its rows have the same number of fields.
IsTensor(t) == \A i, j \in 1..Len(t) : Len(t[i]) = Len(t[j])

\* Split the flat row sequence into tensors at the cut points c[1] <= c[2] <= ...
SplitAt(flat, c) ==
  [k \in 1..(Len(c) + 1) |->
     SubSeq(flat, (IF k = 1 THEN 0 ELSE c[k - 1]) + 1,
                  IF k = Len(c) + 1 THEN Len(flat) ELSE c[k])]

CutsOf(n, m) == {c \in [1..m -> 0..n] : \A k \in 1..(m - 1) : c[k] <= c[k + 1]}

\* The lists of output tensors net.forward may return: 1..MaxTensors tensors
\* holding at most MaxRows rows in all.
OutsInputs ==
  {o \in UNION {{SplitAt(flat, c) :
                   c \in UNION {CutsOf(Len(flat), m) : m \in 0..(MaxTensors - 1)}} :
                flat \in SeqsUpTo(Rows, MaxRows)} :
     \A k \in 1..Len(o) : IsTensor(o[k])}

----------------------------------------------------------------------------
\* Arithmetic helpers

\* int(a / b) for b > 0: Python's int() truncates toward zero.
TruncDiv(a, b) == IF a >= 0 THEN a \div b ELSE -((-a) \div b)

\* round() of the rational n / d (n >= 0, d > 0) to an integer, ties to even.
RoundHalfEven(n, d) ==
  LET q == n \div d
      r == n - q * d
  IN IF 2 * r < d THEN q
     ELSE IF 2 * r > d THEN q + 1
     ELSE IF q % 2 = 0 THEN q ELSE q + 1

\* round(x, 3) of x = n / d, in thousandths.
Round3(n, d) == RoundHalfEven(n * 10^3, d)

----------------------------------------------------------------------------
\* Decode loop (postprocess, lines 54-68)

\* Variant: the scores are read from field index 4 on.
ScoresFromField4(detection) == SubSeq(detection, 5, Len(detection))

\* scores = detection[5:]
Scores(detection) == SubSeq(detection, 6, Len(detection))

\* np.argmax(scores): zero-based index of the first maximum.
ArgMax(scores) ==
  (CHOOSE k \in 1..Len(scores) :
     /\ \A j \in 1..Len(scores) : scores[j] <= scores[k]
     /\ \A j \in 1..(k - 1) : scores[j] < scores[k]) - 1

\* Variant: a score equal to the threshold passes.
PassesThresholdInclusive(confidence, thr) == confidence >= thr

\* if confidence > self.confThreshold
PassesThreshold(confidence, thr) == confidence > thr

\* int(detection[k] * self.model_res[d])
ToPixels(v, res) == TruncDiv(v * res, Scale)

\* Variant: the half-size is not taken before the subtraction.
DecodeBoxHalvedLate(detection, res) ==
  LET center_x == ToPixels(detection[1], res[1])
      center_y == ToPixels(detection[2], res[2])
      width    == ToPixels(detection[3], res[1])
      height   == ToPixels(detection[4], res[2])
  IN <<TruncDiv(center_x - width, 2), TruncDiv(center_y - height, 2), width, height>>

\* [left, top, width, height] of a row
DecodeBox(detection, res) ==
  LET center_x == ToPixels(detection[1], res[1])
      center_y == ToPixels(detection[2], res[2])
      width    == ToPixels(detection[3], res[1])
      height   == ToPixels(detection[4], res[2])
      left     == TruncDiv(2 * center_x - width, 2)
      top      == TruncDiv(2 * center_y - height, 2)
  IN <<left, top, width, height>>

\* One iteration of the inner loop; np.argmax raises ValueError on an empty
\* sequence.
DecodeRow(acc, detection, thr, res) ==
  LET scores == Scores(detection) IN
  IF Len(scores) = 0 THEN [acc EXCEPT !.err = "ValueError"]
  ELSE LET classId    == ArgMax(scores)
           confidence == scores[classId + 1]
       IN IF PassesThreshold(confidence, thr)
          THEN [acc EXCEPT !.classIds    = Append(@, classId),
                           !.confidences = Append(@, confidence),
                           !.boxes       = Append(@, DecodeBox(detection, res))]
          ELSE acc

RECURSIVE DecodeTensor(_, _, _, _)
DecodeTensor(acc, out, thr, res) ==
  IF out = <<>> \/ acc.err # "none" THEN acc
  ELSE DecodeTensor(DecodeRow(acc, Head(out), thr, res), Tail(out), thr, res)

RECURSIVE DecodeOuts(_, _, _, _)
DecodeOuts(acc, os, thr, res) ==
  IF os = <<>> \/ acc.err # "none" THEN acc
  ELSE DecodeOuts(DecodeTensor(acc, Head(os), thr, res), Tail(os), thr, res)

Decode(os, thr, res) ==
  DecodeOuts([classIds |-> <<>>, confidences |-> <<>>, boxes |-> <<>>, err |-> "none"],
             os, thr, res)

----------------------------------------------------------------------------
\* cv.dnn.NMSBoxes(boxes, confidences, score_threshold, nms_threshold)
\* (lines 70-72), as OpenCV's NMSFast_ computes it with eta = 1, top_k = 0:
\* the indices whose score exceeds score_threshold, stably sorted by
\* descending score, are visited in order; an index is kept when its overlap
\* with every index kept so far is <= nms_threshold.

Area(b) == b[3] * b[4]

\* (a & b).area(): the intersection rectangle is empty unless both of its
\* sides are positive.
IntersectionArea(a, b) ==
  LET x1 == IF a[1] > b[1] THEN a[1] ELSE b[1]
      y1 == IF a[2] > b[2] THEN a[2] ELSE b[2]
      x2 == IF a[1] + a[3] < b[1] + b[3] THEN a[1] + a[3] ELSE b[1] + b[3]
      y2 == IF a[2] + a[4] < b[2] + b[4] THEN a[2] + a[4] ELSE b[2] + b[4]
  IN IF x2 - x1 <= 0 \/ y2 - y1 <= 0 THEN 0 ELSE (x2 - x1) * (y2 - y1)

\* 1 - jaccardDistance(a, b) as the fraction <<numerator, denominator>>;
\* jaccardDistance returns 0 (overlap 1) when both areas are zero.
Overlap(a, b) ==
  IF Area(a) + Area(b) <= 0 THEN <<1, 1>>
  ELSE <<IntersectionArea(a, b), Area(a) + Area(b) - IntersectionArea(a, b)>>

\* Variant: no candidate is ever suppressed.
KeepTestAlways(ov, nms) == ov[1] >= 0

\* keep = overlap <= adaptive_threshold
KeepTest(ov, nms) == ov[1] * Scale <= nms * ov[2]

\* Variant: ascending score order.
BeforeAscending(cs, i, j) == cs[i] < cs[j] \/ (cs[i] = cs[j] /\ i < j)

\* SortScorePairDescend under std::stable_sort: i is visited before j.
Before(cs, i, j) == cs[i] > cs[j] \/ (cs[i] = cs[j] /\ i < j)

\* GetMaxScoreIndex: the (one-based) indices with score > threshold in visiting
\* order.
ScoreOrder(cs, thr) ==
  LET sel == {i \in 1..Len(cs) : cs[i] > thr}
  IN [r \in 1..Cardinality(sel) |->
        CHOOSE i \in sel : Cardinality({j \in sel : Before(cs, j, i)}) = r - 1]

RECURSIVE NMSLoop(_, _, _, _)
NMSLoop(order, kept, bs, nms) ==
  IF order = <<>> THEN kept
  ELSE LET idx  == Head(order)
           keep == \A k \in 1..Len(kept) : KeepTest(Overlap(bs[idx], bs[kept[k]]), nms)
       IN NMSLoop(Tail(order), IF keep THEN Append(kept, idx) ELSE kept, bs, nms)

\* The kept indices (one-based positions in boxes), in output order.
NMSBoxes(bs, cs, thr, nms) == NMSLoop(ScoreOrder(cs, thr), <<>>, bs, nms)

----------------------------------------------------------------------------
\* Assembly loop (postprocess, lines 74-104)

\* Variant: width and height are passed where the far corner is expected.
BoxCornersAsSize(box) == <<box[1], box[2], box[3], box[4]>>

\* (left, top, left + width, top + height), the argument of
\* calculate_relative_coords
BoxCorners(box) == <<box[1], box[2], box[1] + box[3], box[2] + box[4]>>

\* One relative coordinate v / ref as the fraction <<numerator, ref>>, clamped
\* to [0, 1].
Clamp01(v, ref) == <<IF v < 0 THEN 0 ELSE IF v > ref THEN ref ELSE v, ref>>

\* lib.helpers.calculate_relative_coords((x1, y1, x2, y2), resolution)
calculate_relative_coords(c, res) ==
  <<Clamp01(c[1], res[1]), Clamp01(c[2], res[2]),
    Clamp01(c[3], res[1]), Clamp01(c[4], res[2])>>

\* label if label else "Unknown"
LabelOrUnknown(label) == IF label = "" THEN "Unknown" ELSE label

\* The dictionary appended at lines 91-102.
DetectionRecord(label, confidence, rc) ==
  [label       |-> LabelOrUnknown(label),
   confidence  |-> Round3(confidence, Scale),
   height      |-> Round3(rc[4][1] - rc[2][1], rc[2][2]),
   width       |-> Round3(rc[3][1] - rc[1][1], rc[1][2]),
   relative_x1 |-> Round3(rc[1][1], rc[1][2]),
   relative_y1 |-> Round3(rc[2][1], rc[2][2]),
   relative_x2 |-> Round3(rc[3][1], rc[3][2]),
   relative_y2 |-> Round3(rc[4][1], rc[4][2])]

\* One iteration of the loop over indices.  With a class table the label is
\* self.classes[classIds[i]] (IndexError past its end); without one the
\* name label is never bound and its use at line 93 raises
\* UnboundLocalError.
AssembleOne(acc, i, cls, ids, cs, bs, res) ==
  IF cls # NoClasses /\ ids[i] >= Len(cls)
    THEN [acc EXCEPT !.err = "IndexError"]
  ELSE IF res[1] = 0 \/ res[2] = 0
    THEN [acc EXCEPT !.err = "ZeroDivisionError"]
  ELSE IF cls = NoClasses
    THEN [acc EXCEPT !.err = "UnboundLocalError"]
  ELSE [acc EXCEPT !.detections =
          Append(@, DetectionRecord(cls[ids[i] + 1], cs[i],
                                    calculate_relative_coords(BoxCorners(bs[i]), res)))]

RECURSIVE Assemble(_, _, _, _, _, _, _)
Assemble(acc, idxs, cls, ids, cs, bs, res) ==
  IF idxs = <<>> \/ acc.err # "none" THEN acc
  ELSE Assemble(AssembleOne(acc, Head(idxs), cls, ids, cs, bs, res),
                Tail(idxs), cls, ids, cs, bs, res)

\* postprocess(outs): the candidate lists, the kept indices, the returned
\* detections, and the exception raised, if any (then nothing is returned).
Postprocess(os, thr, nms, cls, res) ==
  LET d    == Decode(os, thr, res)
      idxs == IF d.err = "none" THEN NMSBoxes(d.boxes, d.confidences, thr, nms) ELSE <<>>
      a    == IF d.err = "none"
              THEN Assemble([detections |-> <<>>, err |-> "none"], idxs, cls,
                            d.classIds, d.confidences, d.boxes, res)
              ELSE [detections |-> <<>>, err |-> d.err]
  IN [classIds |-> d.classIds, confidences |-> d.confidences, boxes |-> d.boxes,
      indices |-> idxs,
      detections |-> IF a.err = "none" THEN a.detections ELSE <<>>,
      err |-> a.err]

----------------------------------------------------------------------------
\* State machine

\* load_classes: the lines of the names file, or None without a file.
load_classes(lines) == lines

Init ==
  /\ pc = "new"
  /\ confThreshold = 0
  /\ nmsThreshold = 0
  /\ classes = NoClasses
  /\ model_res = <<0, 0>>
  /\ outs = <<>>
  /\ classIds = <<>>
  /\ confidences = <<>>
  /\ boxes = <<>>
  /\ indices = <<>>
  /\ detections = <<>>
  /\ err = "none"

\* ObjectDetection.__init__: the arguments are stored as given.
Construct(thr, nms, lines, res) ==
  /\ pc = "new"
  /\ confThreshold' = thr
  /\ nmsThreshold' = nms
  /\ model_res' = res
  /\ classes' = load_classes(lines)
  /\ pc' = "idle"
  /\ UNCHANGED <<outs, classIds, confidences, boxes, indices, detections, err>>

\* return_objects(frame): the network's outputs os go through postprocess.
ReturnObjects(os) ==
  /\ pc = "idle"
  /\ \E r \in {Postprocess(os, confThreshold, nmsThreshold, classes, model_res)} :
        /\ outs' = os
        /\ classIds' = r.classIds
        /\ confidences' = r.confidences
        /\ boxes' = r.boxes
        /\ indices' = r.indices
        /\ detections' = r.detections
        /\ err' = r.err
  /\ pc' = "returned"
  /\ UNCHANGED <<confThreshold, nmsThreshold, classes, model_res>>

\* The frame loop of main: the results of a frame are dropped before the next
\* frame is read.
NextFrame ==
  /\ pc = "returned"
  /\ err = "none"
  /\ pc' = "idle"
  /\ outs' = <<>>
  /\ classIds' = <<>>
  /\ confidences' = <<>>
  /\ boxes' = <<>>
  /\ indices' = <<>>
  /\ detections' = <<>>
  /\ UNCHANGED <<confThreshold, nmsThreshold, classes, model_res, err>>

Next ==
  \/ pc = "new" /\ \E thr \in ThrVals, nms \in NmsVals, lines \in ClassTables,
                         res \in ResVals : Construct(thr, nms, lines, res)
  \/ pc = "idle" /\ \E os \in OutsInputs : ReturnObjects(os)
  \/ NextFrame

Spec == Init /\ [][Next]_vars

----------------------------------------------------------------------------
\* Vocabulary of the properties

RECURSIVE Flat(_)
\* All rows of all tensors, in the order the decode loop visits them.
Flat(os) == IF os = <<>> THEN <<>> ELSE Head(os) \o Flat(Tail(os))

\* The row has a class score above the threshold.
HasScoreAbove(row, thr) == \E j \in 6..Len(row) : row[j] > thr

PassingRows(os, thr) ==
  LET Test(row) == HasScoreAbove(row, thr) IN SelectSeq(Flat(os), Test)

\* Intersection-over-Union of two pixel boxes as a fraction, 0 when the union
\* has no area.
IoU(a, b) ==
  LET i == IntersectionArea(a, b)
      u == Area(a) + Area(b) - i
  IN IF u = 0 THEN <<0, 1>> ELSE <<i, u>>

Kept == {indices[k] : k \in 1..Len(indices)}

\* Candidate j precedes candidate i in the descending-confidence order.
Outranks(j, i) ==
  confidences[j] > confidences[i] \/ (confidences[j] = confidences[i] /\ j < i)

Decoded == pc = "returned" /\ err # "ValueError"

Returned == pc = "returned" /\ err = "none"

\* The configuration is one the specification admits: thresholds in [0, 1],
\* positive input resolution.
ValidConfig ==
  /\ 0 <= confThreshold /\ confThreshold <= Scale
  /\ 0 <= nmsThreshold /\ nmsThreshold <= Scale
  /\ model_res[1] > 0 /\ model_res[2] > 0

----------------------------------------------------------------------------
\* C1: every candidate appended by the decode loop has confidence strictly
\* above the confidence threshold, and only rows with a class score above the
\* threshold contribute candidates, kept indices or detections.
C1_ThresholdStrict ==
  pc = "returned" =>
    /\ \A i \in 1..Len(confidences) : confidences[i] > confThreshold
    /\ Len(confidences) <= Len(PassingRows(outs, confThreshold))
    /\ Len(indices) <= Len(PassingRows(outs, confThreshold))
    /\ Len(detections) <= Len(PassingRows(outs, confThreshold))

\* A call with a row whose best score equals the threshold and another row
\* that became a candidate.
C1_Witness ==
  /\ pc = "returned" /\ err = "none"
  /\ Len(confidences) = 1
  /\ \E k \in 1..Len(Flat(outs)) :
       /\ Len(Flat(outs)[k]) > 5
       /\ ~HasScoreAbove(Flat(outs)[k], confThreshold)
       /\ \E j \in 6..Len(Flat(outs)[k]) : Flat(outs)[k][j] = confThreshold

C4_LabelFallback ==
  Decoded /\ ValidConfig =>
    /\ (classes = NoClasses \/ \E k \in 1..Len(indices) : classIds[indices[k]] >= Len(classes))
         => err = "none"
    /\ err = "none" =>
         /\ Len(detections) = Len(indices)
         /\ \A k \in 1..Len(indices) :
              detections[k].label =
                IF classes = NoClasses \/ classIds[indices[k]] >= Len(classes)
                THEN "Unknown"
                ELSE classes[classIds[indices[k]] + 1]

C6_DisjointAllKept ==
  (/\ Returned /\ ValidConfig
   /\ \A i, j \in 1..Len(boxes) :
        i # j => boxes[i] # boxes[j] /\ IoU(boxes[i], boxes[j])[1] = 0)
  => /\ Kept = 1..Len(boxes)
     /\ Len(indices) = Len(boxes)
     /\ \A a, b \in 1..Len(indices) :
          a < b => confidences[indices[a]] >= confidences[indices[b]]

C8_ConfigurationRejected == pc # "new" => ValidConfig

\* C9 (for an admitted configuration): a row without class scores is
\* skipped: the call raises nothing in the decode loop and the other rows are
\* decoded.
C9_EmptyScoresSkipped ==
  (/\ pc = "returned" /\ ValidConfig
   /\ \E k \in 1..Len(Flat(outs)) : Len(Flat(outs)[k]) <= 5)
  => /\ err # "ValueError"
     /\ Len(confidences) = Len(PassingRows(outs, confThreshold))

\* The output tensors with field index 4 of every row set to v.
WithField4(os, v) ==
  [t \in 1..Len(os) |-> [i \in 1..Len(os[t]) |-> [os[t][i] EXCEPT ![5] = v]]]

\* C10: the returned detections (and whether the call raises) do not depend
\* on field index 4 of any row: the call returns what it returns on the same
\* rows with field 4 overwritten by any one value, so two inputs that differ
\* only at field 4 return the same list.
C10_Field4Ignored ==
  pc = "returned" =>
    \A v \in Field4Vals :
      \A r \in {Postprocess(WithField4(outs, v), confThreshold, nmsThreshold,
                            classes, model_res)} :
        r.detections = detections /\ r.err = err

\* A call that returned a detection and held a row whose field 4 exceeds the
\* threshold while none of its class scores does.
C10_Witness ==
  /\ pc = "returned" /\ err = "none"
  /\ Len(detections) = 1
  /\ \E k \in 1..Len(Flat(outs)) :
       /\ Flat(outs)[k][5] > confThreshold
       /\ Len(Flat(outs)[k]) > 5
       /\ ~HasScoreAbove(Flat(outs)[k], confThreshold)

====
